---- MODULE Spec2Model ----
(***************************************************************************)
(* pydownloader: a resource of known length is split into byte ranges by   *)
(* the ContentRange iterator, one download_range() task per range streams  *)
(* its range into a chunk file, and download() joins the tasks, aborts and *)
(* cleans up on the first failure, or concatenates the chunk files into    *)
(* the output file in index order.                                         *)
(*                                                                         *)
(* Bytes of the resource are modelled by their offsets 0 .. length-1, so a *)
(* file's content is the sequence of the offsets written to it.            *)
(***************************************************************************)
EXTENDS Integers, Sequences, FiniteSets, TLC

\* ------------------------------------------------------------- bounds
\* Largest Content-Length the server reports in a full download run.
MaxLen == 3
\* Largest connection count (-n) of a full download run.
MaxConns == 3
\* Largest length and connection count handed to the range planner alone.
MaxPlanLen == 12
MaxPlanConns == 4
\* Largest connection count of the second invocation.
MaxPeerConns == 2

VARIABLES
    pc,         \* position of main()/download(): see the actions
    url_ok,     \* url_validator(url)
    conncount,  \* the -n argument
    server,     \* the remote resource: length, headers it reports, range support
    prior,      \* whether a file existed at the output path before the run
    response,   \* headers of the HEAD response, <<>> before it arrived
    conns,      \* effective connection count
    cr,         \* the ContentRange iterator object
    yielded,    \* the (start, end) pairs the iterator has yielded so far
    tasks,      \* the tasks dict, in insertion order: one record per download_range task
    file_idx,   \* download()'s file_idx
    chunks,     \* chunk files on disk: chunk file name -> content
    outdisk,    \* the output path on disk: {} or output name -> content
    i,          \* loop variable of the concatenation loop
    requests,   \* HTTP requests issued so far
    completed,  \* indices of the tasks that returned normally, in completion order
    ret,        \* which way download() ended
    exitCode,   \* exit status of the process, -1 while it runs
    peer        \* a second invocation with the same output name, in the same directory

vars == <<pc, url_ok, conncount, server, prior, response, conns, cr, yielded, tasks,
          file_idx, chunks, outdisk, i, requests, completed, ret, exitCode, peer>>

\* ------------------------------------------------------------ helpers
Min(a, b) == IF a < b THEN a ELSE b

\* <<a, a+1, ..., b>>, empty when a > b
Bytes(a, b) == [k \in 1..(b - a + 1) |-> a + k - 1]

\* the output file name and the content a file at that path had before the run
OutFile == "f"
OldData == <<-1>>

\* f".{outfile}.{file_idx}"
ChunkName(outfile, idx) == <<outfile, idx>>

\* an os.remove that is left out
RemoveFile_Keep(disk, name) == disk

\* os.remove(name)
RemoveFile(disk, name) == [n \in (DOMAIN disk) \ {name} |-> disk[n]]

WriteFile(disk, name, data) == [n \in (DOMAIN disk) \cup {name} |-> IF n = name THEN data ELSE disk[n]]

\* ------------------------------------------------------- ContentRange
\* math.floor(length / conns * k).  For the lengths and connection counts
\* used here the double-precision value of length / conns * k has the same
\* floor as the exact quotient.
FloorScaled(length, n, k) == (length * k) \div n

\* ContentRange.__init__ (the assert is the guard of the action that calls it)
CRInit(length, n) == [conns |-> n, length |-> length, start |-> 0, end |-> 0, counter |-> 0]

\* CRStart with the + 1 of line 89 left out
CRStart_NoSkip(c) == IF c.counter # 0 THEN FloorScaled(c.length, c.conns, c.counter) ELSE c.start

\* self.start after line 89
CRStart(c) == IF c.counter # 0 THEN FloorScaled(c.length, c.conns, c.counter) + 1 ELSE c.start

\* CREnd with counter in place of counter + 1
CREnd_Counter(c) == FloorScaled(c.length, c.conns, c.counter)

\* self.end after line 90
CREnd(c) == FloorScaled(c.length, c.conns, c.counter + 1)

\* the iterator object after one call of __next__
CRNext(c) == [c EXCEPT !.start = CRStart(c), !.end = CREnd(c), !.counter = c.counter + 1]

\* whether that call raised StopIteration
CRStopped(c) == c.counter = c.conns + 1

\* ------------------------------------------------------------- server
\* Body of the response to GET with "range: bytes=start-end": a server that
\* honors ranges sends the bytes of the range that exist (none when the range
\* starts past the end), one that does not sends the whole resource.
ServerBody(start, end) ==
    IF server.honor THEN Bytes(start, Min(end, server.length - 1))
    ELSE Bytes(0, server.length - 1)

\* ---------------------------------------------------------------- Init
\* the second invocation before it has dispatched its tasks
PeerIdle == [pc |-> "idle", tasks |-> <<>>]

NoTasks ==
    /\ tasks = <<>>
    /\ file_idx = 0
    /\ chunks = <<>>
    /\ i = 0
    /\ completed = <<>>
    /\ yielded = <<>>
    /\ peer = PeerIdle

Init ==
    /\ pc = "main"
    /\ url_ok \in BOOLEAN
    /\ conncount \in 0..MaxConns
    /\ server \in [length : 0..MaxLen, cl : BOOLEAN, ar : BOOLEAN, honor : BOOLEAN]
    /\ prior \in BOOLEAN
    /\ outdisk = IF prior THEN [n \in {OutFile} |-> OldData] ELSE [n \in {} |-> <<>>]
    /\ response = <<>>
    /\ conns = 0
    /\ cr = CRInit(0, 0)
    /\ NoTasks
    /\ requests = {}
    /\ ret = "none"
    /\ exitCode = -1

\* ---------------------------------------------------------------- main
\* lines 63-65: an invalid url ends the process with status 1
MainInvalidUrl ==
    /\ pc = "main"
    /\ ~url_ok
    /\ pc' = "exited"
    /\ exitCode' = 1
    /\ UNCHANGED <<peer, url_ok, conncount, server, prior, response, conns, cr, yielded, tasks,
                   file_idx, chunks, outdisk, i, requests, completed, ret>>

\* lines 67-68, 117-121: main calls download()
MainDownload ==
    /\ pc = "main"
    /\ url_ok
    /\ pc' = "head"
    /\ UNCHANGED <<peer, url_ok, conncount, server, prior, response, conns, cr, yielded, tasks,
                   file_idx, chunks, outdisk, i, requests, completed, ret, exitCode>>

\* ------------------------------------------------------------ download
HeadRequest == [method |-> "HEAD", range |-> <<>>]
GetRequest(start, end) == [method |-> "GET", range |-> <<start, end>>]

\* line 122: the HEAD request is answered
Discover ==
    /\ pc = "head"
    /\ requests' = requests \cup {HeadRequest}
    /\ response' = <<[cl |-> server.cl, ar |-> server.ar, length |-> server.length]>>
    /\ pc' = "headers"
    /\ UNCHANGED <<peer, url_ok, conncount, server, prior, conns, cr, yielded, tasks,
                   file_idx, chunks, outdisk, i, completed, ret, exitCode>>

\* line 122: the HEAD request fails; the exception leaves download() and main()
HeadError ==
    /\ pc = "head"
    /\ requests' = requests \cup {HeadRequest}
    /\ pc' = "raised"
    /\ ret' = "raised"
    /\ UNCHANGED <<peer, url_ok, conncount, server, prior, response, conns, cr, yielded, tasks,
                   file_idx, chunks, outdisk, i, completed, exitCode>>

\* a check of line 124 that takes the header for present
HasContentLength_Always(resp) == TRUE

\* line 124
HasContentLength(resp) == resp.cl

\* lines 123-126: no content-length, download() returns
NoContentLength ==
    /\ pc = "headers"
    /\ ~HasContentLength(response[1])
    /\ pc' = "returned"
    /\ ret' = "no_length"
    /\ UNCHANGED <<peer, url_ok, conncount, server, prior, response, conns, cr, yielded, tasks,
                   file_idx, chunks, outdisk, i, requests, completed, exitCode>>

\* EffectiveConns without the degrade of lines 128-130
EffectiveConns_Requested(resp, requested) == requested

\* lines 128-132
EffectiveConns(resp, requested) == IF ~resp.ar THEN 1 ELSE requested

\* lines 128-139: the connection count is chosen and the iterator constructed
Plan ==
    /\ pc = "headers"
    /\ HasContentLength(response[1])
    /\ conns' = EffectiveConns(response[1], conncount)
    /\ IF conns' > 0
       THEN /\ cr' = CRInit(response[1].length, conns')
            /\ pc' = "dispatch"
            /\ ret' = ret
       ELSE \* line 77: the assertion fails and the exception leaves download()
            /\ cr' = cr
            /\ pc' = "raised"
            /\ ret' = "raised"
    /\ UNCHANGED <<peer, url_ok, conncount, server, prior, response, yielded, tasks,
                   file_idx, chunks, outdisk, i, requests, completed, exitCode>>

\* a dispatch loop whose file_idx is not advanced (line 143 left out)
NewTask_SameFile(start, end, idx) ==
    [st |-> "created", start |-> start, end |-> end, file |-> ChunkName(OutFile, 0), pos |-> 0]

\* a task as asyncio.create_task leaves it: scheduled, not yet run
NewTask(start, end, idx) ==
    [st |-> "created", start |-> start, end |-> end, file |-> ChunkName(OutFile, idx), pos |-> 0]

\* lines 139-143: one iteration of the dispatch loop
Dispatch ==
    /\ pc = "dispatch"
    /\ LET n == CRNext(cr) IN
        /\ ~CRStopped(n)
        /\ cr' = n
        /\ yielded' = Append(yielded, <<n.start, n.end>>)
        /\ tasks' = Append(tasks, NewTask(n.start, n.end, file_idx))
        /\ file_idx' = file_idx + 1
    /\ UNCHANGED <<peer, pc, url_ok, conncount, server, prior, response, conns,
                   chunks, outdisk, i, requests, completed, ret, exitCode>>

\* line 139: the iterator raises StopIteration and the loop ends; line 146 awaits
DispatchEnd ==
    /\ pc = "dispatch"
    /\ LET n == CRNext(cr) IN
        /\ CRStopped(n)
        /\ cr' = n
    /\ pc' = "gather"
    /\ UNCHANGED <<peer, url_ok, conncount, server, prior, response, conns, yielded, tasks,
                   file_idx, chunks, outdisk, i, requests, completed, ret, exitCode>>

\* ------------------------------------------------------ download_range
SetTask(k, t) == [tasks EXCEPT ![k] = t]

\* lines 101-105: the task's first step opens (creates or truncates) its chunk
\* file and sends the ranged GET
TaskOpen(k) ==
    /\ pc = "gather"
    /\ tasks[k].st = "created"
    /\ chunks' = WriteFile(chunks, tasks[k].file, <<>>)
    /\ requests' = requests \cup {GetRequest(tasks[k].start, tasks[k].end)}
    /\ tasks' = SetTask(k, [tasks[k] EXCEPT !.st = "streaming"])
    /\ UNCHANGED <<peer, pc, url_ok, conncount, server, prior, response, conns, cr, yielded,
                   file_idx, outdisk, i, completed, ret, exitCode>>

\* line 104: open() raises, the task ends with the exception
TaskOpenError(k) ==
    /\ pc = "gather"
    /\ tasks[k].st = "created"
    /\ tasks' = SetTask(k, [tasks[k] EXCEPT !.st = "failed"])
    /\ UNCHANGED <<peer, pc, url_ok, conncount, server, prior, response, conns, cr, yielded,
                   file_idx, chunks, outdisk, i, requests, completed, ret, exitCode>>

\* line 108 on a file opened "wb": the byte goes to the task's own offset pos;
\* if the file has meanwhile been truncated the gap reads as NUL bytes (-2)
WriteAt(data, pos, b) ==
    [k \in 1..(IF Len(data) > pos + 1 THEN Len(data) ELSE pos + 1) |->
        IF k = pos + 1 THEN b ELSE IF k <= Len(data) THEN data[k] ELSE -2]

\* lines 107-108: the next piece of the body is written to the chunk file (to
\* the unlinked file, with no effect on the directory, if it has been removed)
TaskWrite(k) ==
    /\ pc = "gather"
    /\ tasks[k].st = "streaming"
    /\ LET body == ServerBody(tasks[k].start, tasks[k].end)
           t == tasks[k] IN
        /\ t.pos < Len(body)
        /\ chunks' = IF t.file \in DOMAIN chunks
                     THEN WriteFile(chunks, t.file, WriteAt(chunks[t.file], t.pos, body[t.pos + 1]))
                     ELSE chunks
        /\ tasks' = SetTask(k, [t EXCEPT !.pos = t.pos + 1])
    /\ UNCHANGED <<peer, pc, url_ok, conncount, server, prior, response, conns, cr, yielded,
                   file_idx, outdisk, i, requests, completed, ret, exitCode>>

\* whether download_range accepts the response it has streamed (lines 105-109:
\* the status of the response is not looked at)
ResponseAccepted(k) == TRUE

\* lines 107-109: the body is exhausted, the file closed, the task returns
TaskFinish(k) ==
    /\ pc = "gather"
    /\ tasks[k].st = "streaming"
    /\ tasks[k].pos = Len(ServerBody(tasks[k].start, tasks[k].end))
    /\ ResponseAccepted(k)
    /\ tasks' = SetTask(k, [tasks[k] EXCEPT !.st = "done"])
    /\ completed' = Append(completed, k)
    /\ UNCHANGED <<peer, pc, url_ok, conncount, server, prior, response, conns, cr, yielded,
                   file_idx, chunks, outdisk, i, requests, ret, exitCode>>

\* lines 105-108: the connection fails, times out, or the response carries no
\* Content-Length (line 106); the file is closed as written so far
TaskFail(k) ==
    /\ pc = "gather"
    /\ tasks[k].st = "streaming"
    /\ tasks' = SetTask(k, [tasks[k] EXCEPT !.st = "failed"])
    /\ UNCHANGED <<peer, pc, url_ok, conncount, server, prior, response, conns, cr, yielded,
                   file_idx, chunks, outdisk, i, requests, completed, ret, exitCode>>

\* a task cancelled by line 150 gets CancelledError at its next step: one that
\* never ran does not run its body, one suspended in the stream leaves it
TaskCancelled(k) ==
    /\ pc = "returned"
    /\ tasks[k].st = "cancelling"
    /\ tasks' = SetTask(k, [tasks[k] EXCEPT !.st = "cancelled"])
    /\ UNCHANGED <<peer, pc, url_ok, conncount, server, prior, response, conns, cr, yielded,
                   file_idx, chunks, outdisk, i, requests, completed, ret, exitCode>>

\* ------------------------------------------------- download: the join
\* a join that takes a task ended by an exception for a finished one
AllDone_OrFailed == \A k \in DOMAIN tasks : tasks[k].st \in {"done", "failed"}

\* a join that returns with the first task that has finished
AllDone_AnyDone == \E k \in DOMAIN tasks : tasks[k].st = "done"

AllDone == \A k \in DOMAIN tasks : tasks[k].st = "done"
\* a join that raises only when every task has failed
AnyFailed_AllFailed == \A k \in DOMAIN tasks : tasks[k].st = "failed"

AnyFailed == \E k \in DOMAIN tasks : tasks[k].st = "failed"

\* line 146: gather returns once every task has returned
GatherReturn ==
    /\ pc = "gather"
    /\ AllDone
    /\ pc' = "assemble"
    /\ UNCHANGED <<peer, url_ok, conncount, server, prior, response, conns, cr, yielded, tasks,
                   file_idx, chunks, outdisk, i, requests, completed, ret, exitCode>>

\* a cleanup without line 150
Cancel_Noop(t) == t

\* line 150: task.cancel() has no effect on a task that has ended
Cancel(t) == IF t.st \in {"created", "streaming"} THEN [t EXCEPT !.st = "cancelling"] ELSE t

\* a cleanup that removes only the chunks of the tasks that had finished
CleanupFiles_OnlyDone(ts) == {ts[k].file : k \in {j \in DOMAIN ts : ts[j].st = "done"}}

\* lines 149-152: the files the cleanup loop removes
CleanupFiles(ts) == {ts[k].file : k \in DOMAIN ts}

\* lines 146-153: gather raises the first exception of a task; every task is
\* cancelled and every chunk file that exists is removed, in one step of the
\* event loop; download() returns
GatherExcept ==
    /\ pc = "gather"
    /\ AnyFailed
    /\ tasks' = [k \in DOMAIN tasks |-> Cancel(tasks[k])]
    /\ chunks' = [n \in (DOMAIN chunks) \ CleanupFiles(tasks) |-> chunks[n]]
    /\ pc' = "returned"
    /\ ret' = "aborted"
    /\ UNCHANGED <<peer, url_ok, conncount, server, prior, response, conns, cr, yielded,
                   file_idx, outdisk, i, requests, completed, exitCode>>

\* ------------------------------------------------ download: assembly
\* line 156: the output file is created or truncated
AssembleOpen ==
    /\ pc = "assemble"
    /\ outdisk' = WriteFile(outdisk, OutFile, <<>>)
    /\ i' = 0
    /\ pc' = "concat"
    /\ UNCHANGED <<peer, url_ok, conncount, server, prior, response, conns, cr, yielded, tasks,
                   file_idx, chunks, requests, completed, ret, exitCode>>

\* a concatenation that takes the chunks in the order the tasks completed
ChunkPath_ByCompletion(idx) == ChunkName(OutFile, completed[idx + 1] - 1)

\* line 158: the chunk file read in iteration idx of the concatenation loop
ChunkPath(idx) == ChunkName(OutFile, idx)

\* lines 157-160: chunk i is read and appended to the output
AssembleCopy ==
    /\ pc = "concat"
    /\ i < file_idx
    /\ ChunkPath(i) \in DOMAIN chunks
    /\ outdisk' = WriteFile(outdisk, OutFile, outdisk[OutFile] \o chunks[ChunkPath(i)])
    /\ pc' = "remove"
    /\ UNCHANGED <<peer, url_ok, conncount, server, prior, response, conns, cr, yielded, tasks,
                   file_idx, chunks, i, requests, completed, ret, exitCode>>

\* line 161: chunk i is removed
AssembleRemove ==
    /\ pc = "remove"
    /\ ChunkPath(i) \in DOMAIN chunks
    /\ chunks' = RemoveFile(chunks, ChunkPath(i))
    /\ i' = i + 1
    /\ pc' = "concat"
    /\ UNCHANGED <<peer, url_ok, conncount, server, prior, response, conns, cr, yielded, tasks,
                   file_idx, outdisk, requests, completed, ret, exitCode>>

\* lines 157, 162-164: the loop is over, download() returns
AssembleEnd ==
    /\ pc = "concat"
    /\ i = file_idx
    /\ pc' = "returned"
    /\ ret' = "completed"
    /\ UNCHANGED <<peer, url_ok, conncount, server, prior, response, conns, cr, yielded, tasks,
                   file_idx, chunks, outdisk, i, requests, completed, exitCode>>

\* lines 156-161: open, read, write or remove raises OSError; nothing catches it
AssembleIOError ==
    /\ pc \in {"assemble", "concat", "remove"}
    /\ pc = "concat" => i < file_idx
    /\ pc' = "raised"
    /\ ret' = "raised"
    /\ UNCHANGED <<peer, url_ok, conncount, server, prior, response, conns, cr, yielded, tasks,
                   file_idx, chunks, outdisk, i, requests, completed, exitCode>>

\* ------------------------------------------------------- process exit
Stopped(t) == t.st \in {"done", "failed", "cancelled"}
AllStopped == \A k \in DOMAIN tasks : Stopped(tasks[k])

\* lines 65, 68, 171: status of a process whose main() returned (0) or was left
\* by an exception (1)
ExitStatus(how) == IF how = "raised" THEN 1 ELSE 0

\* lines 34, 68, 171: download() and main() are over, asyncio.run has waited for
\* the cancelled tasks, the process ends
Exit ==
    /\ pc \in {"returned", "raised"}
    /\ AllStopped
    /\ exitCode' = ExitStatus(pc)
    /\ pc' = "exited"
    /\ UNCHANGED <<peer, url_ok, conncount, server, prior, response, conns, cr, yielded, tasks,
                   file_idx, chunks, outdisk, i, requests, completed, ret>>

\* ------------------------------------------------------- specifications
Next ==
    \/ MainInvalidUrl
    \/ MainDownload
    \/ Discover
    \/ HeadError
    \/ NoContentLength
    \/ Plan
    \/ Dispatch
    \/ DispatchEnd
    \/ \E k \in DOMAIN tasks : TaskOpen(k)
    \/ \E k \in DOMAIN tasks : TaskOpenError(k)
    \/ \E k \in DOMAIN tasks : TaskWrite(k)
    \/ \E k \in DOMAIN tasks : TaskFinish(k)
    \/ \E k \in DOMAIN tasks : TaskFail(k)
    \/ \E k \in DOMAIN tasks : TaskCancelled(k)
    \/ GatherReturn
    \/ GatherExcept
    \/ AssembleOpen
    \/ AssembleCopy
    \/ AssembleRemove
    \/ AssembleEnd
    \/ AssembleIOError
    \/ Exit

Spec == Init /\ [][Next]_vars

\* The event loop runs every callback that is ready, so a step that stays
\* possible is taken: the HEAD response arrives, every task goes on until it
\* has returned or failed, and download() goes on when the join is decided.
\* (Runs with no file at the output path beforehand: whether one exists has no
\* effect on which steps are possible.)
InitFair == Init /\ ~prior

SpecFair == InitFair /\ [][Next]_vars /\ WF_vars(Next)

\* The range planner on its own: download() at line 139, after a HEAD response
\* that reported length and range support, for every length and count.
PlanLengths == (0..MaxPlanLen) \cup {100}

InitPlan ==
    /\ pc = "dispatch"
    /\ url_ok = TRUE
    /\ conncount \in 1..MaxPlanConns
    /\ server \in [length : PlanLengths, cl : {TRUE}, ar : {TRUE}, honor : {TRUE}]
    /\ prior = FALSE
    /\ outdisk = [n \in {} |-> <<>>]
    /\ response = <<[cl |-> TRUE, ar |-> TRUE, length |-> server.length]>>
    /\ conns = conncount
    /\ cr = CRInit(server.length, conncount)
    /\ NoTasks
    /\ requests = {HeadRequest}
    /\ ret = "none"
    /\ exitCode = -1

NextPlan ==
    \/ Dispatch
    \/ DispatchEnd

SpecPlan == InitPlan /\ [][NextPlan]_vars

\* ------------------------------------------- a second invocation
\* Steps of another run of the program with the same output name in the same
\* directory, as far as they touch the chunk files: it dispatches its tasks,
\* the tasks open their chunk files, and when one of them fails it cleans up.
\* (Its resource is taken to be empty, so its tasks write no bytes.)
OwnVars == <<pc, url_ok, conncount, server, prior, response, conns, cr, yielded, tasks,
             file_idx, outdisk, i, requests, completed, ret, exitCode>>

\* lines 137-143 of the second invocation: the whole dispatch loop
PeerDispatch ==
    /\ peer.pc = "idle"
    /\ \E n \in 1..MaxPeerConns :
        peer' = [pc |-> "gather",
                 tasks |-> [k \in 1..n |-> [st |-> "created", file |-> ChunkName(OutFile, k - 1)]]]
    /\ UNCHANGED <<OwnVars, chunks>>

\* line 104 of the second invocation: a task creates or truncates its chunk file
PeerTaskOpen(k) ==
    /\ peer.pc = "gather"
    /\ peer.tasks[k].st = "created"
    /\ peer' = [peer EXCEPT !.tasks[k].st = "streaming"]
    /\ chunks' = WriteFile(chunks, peer.tasks[k].file, <<>>)
    /\ UNCHANGED OwnVars

\* lines 105-108 of the second invocation: a task fails
PeerTaskFail(k) ==
    /\ peer.pc = "gather"
    /\ peer.tasks[k].st = "streaming"
    /\ peer' = [peer EXCEPT !.tasks[k].st = "failed"]
    /\ UNCHANGED <<OwnVars, chunks>>

\* lines 146-153 of the second invocation: its cleanup removes its chunk files
PeerAbort ==
    /\ peer.pc = "gather"
    /\ \E k \in DOMAIN peer.tasks : peer.tasks[k].st = "failed"
    /\ peer' = [pc |-> "returned", tasks |-> [k \in DOMAIN peer.tasks |-> Cancel(peer.tasks[k])]]
    /\ chunks' = [n \in (DOMAIN chunks) \ CleanupFiles(peer.tasks) |-> chunks[n]]
    /\ UNCHANGED OwnVars

\* Two invocations at once: a run against a server that supports ranges, next
\* to the second invocation.
InitTwo ==
    /\ pc = "main"
    /\ url_ok \in BOOLEAN
    /\ conncount \in 1..MaxConns
    /\ server \in [length : 0..MaxLen, cl : BOOLEAN, ar : {TRUE}, honor : {TRUE}]
    /\ prior = FALSE
    /\ outdisk = [n \in {} |-> <<>>]
    /\ response = <<>>
    /\ conns = 0
    /\ cr = CRInit(0, 0)
    /\ NoTasks
    /\ requests = {}
    /\ ret = "none"
    /\ exitCode = -1

NextTwo ==
    \/ Next
    \/ PeerDispatch
    \/ \E k \in DOMAIN peer.tasks : PeerTaskOpen(k)
    \/ \E k \in DOMAIN peer.tasks : PeerTaskFail(k)
    \/ PeerAbort

SpecTwo == InitTwo /\ [][NextTwo]_vars

\* ================================================================ claims
Planned == pc = "gather"
LastRange == yielded[Len(yielded)]

\* C1: for every length L >= 0 and count N >= 1 the planner, iterated to
\* exhaustion, yields exactly N ranges, the k-th of them for chunk index k-1,
\* the first starting at 0 and each starting one past the end of the one before.
C1_RangesContiguous ==
    /\ Len(yielded) <= cr.conns
    /\ Planned => Len(yielded) = cr.conns
    /\ Len(yielded) >= 1 => yielded[1][1] = 0
    /\ \A k \in 1..(Len(yielded) - 1) : yielded[k][2] + 1 = yielded[k + 1][1]
    /\ Len(tasks) = Len(yielded)
    /\ \A k \in 1..Len(yielded) :
        /\ tasks[k].file = ChunkName(OutFile, k - 1)
        /\ <<tasks[k].start, tasks[k].end>> = yielded[k]

C1_Witness ==
    /\ Planned
    /\ cr.length = 10
    /\ yielded = <<<<0, 2>>, <<3, 5>>, <<6, 7>>, <<8, 10>>>>

\* C2: for every length L >= 0 and count N >= 1 the last planned range ends at
\* L-1, never at L; with N = 1 the plan is the single range (0, L-1).
C2_LastRangeEndsAtLastByte ==
    Planned =>
        /\ LastRange[2] = cr.length - 1
        /\ cr.conns = 1 => yielded = <<<<0, cr.length - 1>>>>

\* C3: when N divides L the planner yields N equal ranges, range k being
\* (k*L/N, (k+1)*L/N - 1); L = 100, N = 4 gives (0,24),(25,49),(50,74),(75,99).
C3_EqualRangesWhenDivisible ==
    /\ (Planned /\ cr.length % cr.conns = 0) =>
            \A k \in 0..(cr.conns - 1) :
                yielded[k + 1] = <<k * (cr.length \div cr.conns),
                                   (k + 1) * (cr.length \div cr.conns) - 1>>
    /\ (Planned /\ cr.length = 100 /\ cr.conns = 4) =>
            yielded = <<<<0, 24>>, <<25, 49>>, <<50, 74>>, <<75, 99>>>>

\* what task k received and wrote: chunk k-1
Fetched(k) == ServerBody(tasks[k].start, tasks[k].end)

RECURSIVE ConcatFetched(_)
ConcatFetched(n) == IF n = 0 THEN <<>> ELSE ConcatFetched(n - 1) \o Fetched(n)

\* C4: when all N fetch tasks succeeded and download() has finished, the output
\* file holds chunk 0, chunk 1, ..., chunk N-1 in that order, whatever the order
\* in which the tasks completed.
C4_OutputIsConcatInIndexOrder ==
    ret = "completed" =>
        /\ OutFile \in DOMAIN outdisk
        /\ outdisk[OutFile] = ConcatFetched(Len(tasks))

C4_Witness ==
    /\ ret = "completed"
    /\ Len(tasks) = 3
    /\ completed = <<2, 1, 3>>
    /\ Fetched(1) # <<>> /\ Fetched(2) # <<>>
    /\ outdisk[OutFile] = <<0, 1, 2>>

\* C5: if a fetch task failed, then once download() has returned and every task
\* has stopped no chunk file exists, neither of a task that had finished nor of
\* one that was cancelled while writing.
C5_NoChunkLeftAfterFailure ==
    (AnyFailed /\ pc \in {"returned", "exited"} /\ AllStopped) => DOMAIN chunks = {}

C5_Witness ==
    /\ pc = "exited"
    /\ ret = "aborted"
    /\ DOMAIN chunks = {}
    /\ \E a, b, c \in DOMAIN tasks :
        /\ tasks[a].st = "failed"
        /\ tasks[b].st = "done" /\ Fetched(b) # <<>>
        /\ tasks[c].st = "cancelled" /\ tasks[c].pos > 0 /\ tasks[c].pos < Len(Fetched(c))

\* the output path as it was before the run
OutputUntouched == outdisk = IF prior THEN [n \in {OutFile} |-> OldData] ELSE [n \in {} |-> <<>>]

\* C6: if a fetch task failed the output path is never opened: download() is
\* never in the concatenation and the output path stays as it was.
C6_NoOutputAfterFailure ==
    AnyFailed =>
        /\ pc \notin {"assemble", "concat", "remove"}
        /\ ret # "completed"
        /\ OutputUntouched

C6_Witness ==
    /\ pc = "exited"
    /\ AnyFailed
    /\ \E k \in DOMAIN tasks : tasks[k].st = "done"
    /\ ~prior
    /\ DOMAIN outdisk = {}

Gets == {r \in requests : r.method = "GET"}
NoLengthReported == response # <<>> /\ ~response[1].cl

\* C7: if the HEAD response reports no Content-Length, download() ends without
\* dispatching a fetch task: no GET is issued and no chunk file exists in any
\* state of the run.
C7_NoLengthNoFetch ==
    NoLengthReported =>
        /\ pc \in {"headers", "returned", "exited"}
        /\ tasks = <<>>
        /\ Gets = {}
        /\ DOMAIN chunks = {}

C7_Witness ==
    /\ NoLengthReported
    /\ pc = "exited"
    /\ ret = "no_length"
    /\ response[1].ar
    /\ conncount >= 2

NoRangesReported == response # <<>> /\ response[1].cl /\ ~response[1].ar

\* C8: if the HEAD response does not advertise Accept-Ranges the effective
\* connection count is 1 whatever count was requested, exactly one fetch task
\* is dispatched and it creates the one chunk file, that of index 0.
C8_NoRangesOneTask ==
    (NoRangesReported /\ pc # "headers") =>
        /\ conns = 1
        /\ Len(tasks) <= 1
        /\ pc # "dispatch" => Len(tasks) = 1
        /\ DOMAIN chunks \subseteq {ChunkName(OutFile, 0)}
        /\ Cardinality(Gets) <= 1
        /\ (Len(tasks) = 1 /\ tasks[1].st = "streaming") =>
                /\ DOMAIN chunks = {ChunkName(OutFile, 0)}
                /\ Cardinality(Gets) = 1

C8_Witness ==
    /\ NoRangesReported
    /\ conncount = MaxConns
    /\ pc = "gather"
    /\ Len(tasks) = 1
    /\ tasks[1].st = "streaming"
    /\ DOMAIN chunks = {ChunkName(OutFile, 0)}

\* task k asked for a range of bytes that exist and was sent something else
Unhonored(k) ==
    /\ tasks[k].st \in {"streaming", "done", "failed", "cancelled"}
    /\ tasks[k].start <= server.length - 1
    /\ Fetched(k) # Bytes(tasks[k].start, Min(tasks[k].end, server.length - 1))

\* C9: a fetch task whose range request the server did not honor fails, so the
\* download aborts and no output is assembled from the wrongly sized chunk.
C9_UnhonoredRangeFails ==
    \A k \in DOMAIN tasks :
        Unhonored(k) => /\ tasks[k].st # "done"
                        /\ pc \notin {"assemble", "concat", "remove"}
                        /\ ret # "completed"

\* C10: the process ends with status 0 only when the download succeeded, and
\* with status 1 on an invalid url and on every failure.
C10_ExitCodeTellsOutcome ==
    pc = "exited" =>
        /\ exitCode \in {0, 1}
        /\ exitCode = 0 <=> ret = "completed"

OwnChunkFiles == {tasks[k].file : k \in DOMAIN tasks}
PeerChunkFiles == {peer.tasks[k].file : k \in DOMAIN peer.tasks}

\* C11: two invocations running at once with the same output name never use the
\* same chunk file: the chunk files of the one are disjoint from those of the
\* other.
C11_ChunkFilesDisjoint == OwnChunkFiles \cap PeerChunkFiles = {}

\* C12: a connection count below 1 is rejected before any network activity: no
\* HEAD and no GET request is issued and no task is dispatched in that run.
C12_InvalidCountNoNetwork ==
    conncount < 1 => /\ requests = {}
                     /\ tasks = <<>>

AssemblyFailed == ret = "raised" /\ tasks # <<>>

\* C13: an I/O failure during the final assembly is handled like a fetch
\* failure: every remaining chunk file is deleted and the run ends in failure.
C13_AssemblyFailureCleansUp ==
    (AssemblyFailed /\ pc = "exited") => /\ DOMAIN chunks = {}
                                         /\ exitCode = 1

Assembling == pc \in {"assemble", "concat", "remove"}

\* C14: download() is in the assembly only when every dispatched task has
\* returned normally, and one call never does both the abort cleanup and the
\* assembly.
C14_AssembleOnlyAfterAllSucceeded ==
    /\ (Assembling \/ ret = "completed") =>
            /\ tasks # <<>>
            /\ \A k \in DOMAIN tasks : tasks[k].st = "done"
            /\ ret \in {"none", "completed"}
    /\ ret = "aborted" =>
            /\ ~Assembling
            /\ OutputUntouched
    /\ (\E k \in DOMAIN tasks : tasks[k].st \in {"cancelling", "cancelled"}) => ret = "aborted"

C14_Witness ==
    /\ pc = "concat"
    /\ i = 1
    /\ Len(tasks) = 3
    /\ completed = <<3, 2, 1>>

RemainingChunks(from) == {ChunkName(OutFile, j) : j \in from..(file_idx - 1)}

\* C15: on the success path chunk i is deleted only after its bytes are in the
\* output and before chunk i+1 is read, and when download() has completed no
\* chunk file remains.
C15_ChunkRemovedAfterAppend ==
    /\ pc = "concat" => /\ DOMAIN chunks = RemainingChunks(i)
                        /\ outdisk[OutFile] = ConcatFetched(i)
    /\ pc = "remove" => /\ DOMAIN chunks = RemainingChunks(i)
                        /\ outdisk[OutFile] = ConcatFetched(i + 1)
    /\ ret = "completed" => DOMAIN chunks = {}

C15_Witness ==
    /\ pc = "remove"
    /\ i = 1
    /\ Len(tasks) = 3
    /\ DOMAIN chunks = {ChunkName(OutFile, 1), ChunkName(OutFile, 2)}
    /\ outdisk[OutFile] = <<0, 1, 2>>

\* C16: every fetch task of an invocation has a chunk file of its own: no two
\* tasks share a file, and a chunk file holds what its task wrote and nothing
\* else, in every interleaving.
C16_TasksOwnDistinctFiles ==
    /\ \A j, k \in DOMAIN tasks : j # k => tasks[j].file # tasks[k].file
    /\ pc = "gather" =>
            \A k \in DOMAIN tasks :
                (tasks[k].st \in {"streaming", "done", "failed"} /\ tasks[k].file \in DOMAIN chunks) =>
                    chunks[tasks[k].file] = SubSeq(Fetched(k), 1, tasks[k].pos)

C16_Witness ==
    /\ pc = "gather"
    /\ Len(tasks) = 2
    /\ tasks[1].st = "streaming" /\ tasks[1].pos = 1
    /\ tasks[2].st = "streaming" /\ tasks[2].pos = 1
    /\ chunks[tasks[1].file] = <<0>>
    /\ chunks[tasks[2].file] = <<2>>

\* C17 as stated: after the first failure of a fetch task no other task
\* completes successfully.
C17_NoCompletionAfterFailure ==
    [][AnyFailed => \A k \in DOMAIN tasks : tasks'[k].st = "done" => tasks[k].st = "done"]_vars

\* C17, amended: once download() has caught the failure and run its cleanup,
\* every task still in flight is cancelled: no task is left running, none
\* completes, and none writes to or re-creates a chunk file.
C17_CancelledTasksStayStopped ==
    /\ [](ret = "aborted" =>
            \A k \in DOMAIN tasks : tasks[k].st \in {"done", "failed", "cancelling", "cancelled"})
    /\ [][ret = "aborted" =>
            /\ chunks' = chunks
            /\ completed' = completed
            /\ requests' = requests
            /\ \A k \in DOMAIN tasks :
                /\ (tasks'[k].st = "done") = (tasks[k].st = "done")
                /\ tasks'[k].pos = tasks[k].pos]_vars

C17_Witness ==
    /\ pc = "returned"
    /\ ret = "aborted"
    /\ DOMAIN chunks = {}
    /\ \E a, b \in DOMAIN tasks :
        /\ tasks[a].st = "cancelled" /\ tasks[a].pos = 1 /\ Len(Fetched(a)) = 2
        /\ tasks[b].st = "cancelling" /\ tasks[b].pos = 0

\* C18: for L >= N >= 1 every range the planner yields has start <= end.
C18_RangesNonEmpty ==
    cr.length >= cr.conns => \A k \in 1..Len(yielded) : yielded[k][1] <= yielded[k][2]

C18_Witness ==
    /\ Planned
    /\ cr.length = 4
    /\ yielded = <<<<0, 1>>, <<2, 2>>, <<3, 3>>, <<4, 4>>>>

\* C19: on the failure paths of download() (no Content-Length, a failed fetch
\* task) a file that existed at the output path is left as it was.
C19_FailureLeavesOutput ==
    (NoLengthReported \/ AnyFailed \/ ret \in {"no_length", "aborted"}) => OutputUntouched

C19_Witness ==
    /\ prior
    /\ pc = "exited"
    /\ ret = "aborted"
    /\ outdisk[OutFile] = OldData
    /\ \E k \in DOMAIN tasks : tasks[k].st = "done"

\* C20: under fair scheduling download() terminates: whatever the HEAD response
\* and whichever tasks succeed or fail, the join is left, download() ends after
\* the assembly or after the abort cleanup, and the process exits.
C20_DownloadTerminates ==
    /\ (pc = "gather") ~> (ret \in {"completed", "aborted", "raised"})
    /\ <>(pc = "exited")

C20_Witness ==
    /\ pc = "exited"
    /\ Len(tasks) = 3
    /\ tasks[1].st = "done"
    /\ tasks[2].st = "failed"
    /\ tasks[3].st = "cancelled"
    /\ ret = "aborted"
====
